---- MODULE Spec2Model ----
(***************************************************************************)
(* Model of src/src/extension.ts: the activation wiring of the GraphQL     *)
(* language client and the status-bar indicator driven by the client's     *)
(* lifecycle notifications.                                                *)
(***************************************************************************)
EXTENDS Integers, Sequences, FiniteSets, TLC

VARIABLES
  activated,        \* activate() has run
  extensionStatus,  \* let extensionStatus: Status
  serverRunning,    \* let serverRunning: boolean
  statusBarItem,    \* the status bar widget: text, tooltip, command, color, visible
  activeTextEditor, \* window.activeTextEditor: a languageId, or NoEditor
  configuration,    \* workspace.getConfiguration(extName): key -> JS value
  debugMode,        \* the extension host was launched in debug mode
  serverOptions,    \* the ServerOptions built by activate
  launchArgs,       \* the arguments the server process is launched with
  startCount,       \* number of client.start() calls
  initializeCount,  \* number of initialize handshakes the client has attempted
  handshake,        \* the onReady promise: pending, failing, fulfilled, rejected
  errorMessages,    \* number of window.showErrorMessage notifications
  clientLog,        \* messages written with client.error / client.info
  outputChannelShown, \* client.outputChannel.show has been called
  lifecycle,        \* history: the last two lifecycle events handled, newest last
  renderEntry,      \* history: inputs of the last updateStatusBar call
  memo,             \* history: inputs and result of one earlier updateStatusBar call
  clientState,      \* the client's own state, as of its last state change
  deactivated       \* context.subscriptions have been disposed

vars == <<activated, extensionStatus, serverRunning, statusBarItem,
          activeTextEditor, configuration, debugMode, serverOptions,
          launchArgs, startCount, initializeCount, handshake, errorMessages,
          clientLog, outputChannelShown, lifecycle, renderEntry, memo,
          clientState, deactivated>>

----------------------------------------------------------------------------
(* Bounds of the model *)

MaxLog == 2        \* client.info / client.error messages kept apart
MaxInitialize == 2 \* initialize handshakes the client may attempt

----------------------------------------------------------------------------
(* enum Status *)

StatusInit == 1
StatusOk == 2
StatusError == 3
Status == {StatusInit, StatusOk, StatusError}

statusBarText == "GQL"

(* variant: the icons of the ok and error entries exchanged *)
statusBarUIElementsSwapped ==
  [s \in Status |->
     CASE s = StatusInit ->
            [icon |-> "sync", color |-> "white",
             tooltip |-> "Graphql language server is initializing"]
       [] s = StatusOk ->
            [icon |-> "stop", color |-> "while",
             tooltip |-> "Graphql language server is running"]
       [] s = StatusError ->
            [icon |-> "plug", color |-> "red",
             tooltip |-> "Graphql language server has stopped"]]

statusBarUIElements ==
  [s \in Status |->
     CASE s = StatusInit ->
            [icon |-> "sync", color |-> "white",
             tooltip |-> "Graphql language server is initializing"]
       [] s = StatusOk ->
            [icon |-> "plug", color |-> "while",
             tooltip |-> "Graphql language server is running"]
       [] s = StatusError ->
            [icon |-> "stop", color |-> "red",
             tooltip |-> "Graphql language server has stopped"]]

statusBarActivationLanguageIds ==
  <<"graphql", "javascript", "javascriptreact", "typescript", "typescriptreact">>

(* Array.prototype.indexOf: the 0-based index of the first occurrence, or -1 *)
indexOf(arr, x) ==
  IF \E i \in 1..Len(arr) : arr[i] = x
    THEN (CHOOSE i \in 1..Len(arr) :
            arr[i] = x /\ \A j \in 1..(i - 1) : arr[j] # x) - 1
    ELSE -1

NoEditor == "<no editor>"

(* languageIds a focused document may have *)
LanguageIds ==
  {"graphql", "javascript", "javascriptreact", "typescript", "typescriptreact",
   "javascript-react", "typescript-react", "json"}

Editors == LanguageIds \cup {NoEditor}

----------------------------------------------------------------------------
(* JavaScript values of the configuration and of the argument array *)

JsAbsent == [t |-> "absent"]
JsNull == [t |-> "null"]
JsUndefined == [t |-> "undefined"]
JsString(s) == [t |-> "string", s |-> s]
JsBoolean(b) == [t |-> "boolean", b |-> b]

(* `${v}` *)
TemplateString(v) ==
  CASE v.t = "string" -> v.s
    [] v.t = "boolean" -> IF v.b THEN "true" ELSE "false"
    [] v.t = "null" -> "null"
    [] OTHER -> "undefined"

(* Boolean(v) *)
Truthy(v) ==
  CASE v.t = "string" -> v.s # ""
    [] v.t = "boolean" -> v.b
    [] OTHER -> FALSE

ConfigKeys == {"watchman", "autoDownloadGQL"}

ConfigValues ==
  {JsAbsent, JsNull, JsString("foo"), JsString(""), JsBoolean(TRUE),
   JsBoolean(FALSE)}

configurationHas(conf, key) == conf[key].t # "absent"

configurationGet(conf, key) ==
  IF configurationHas(conf, key) THEN conf[key] ELSE JsUndefined

----------------------------------------------------------------------------
(* The status bar widget *)

NewStatusBarItem ==
  [text |-> "", tooltip |-> "", command |-> "", color |-> "", visible |-> FALSE]

(* updateStatusBar(editor): the new extensionStatus and the new widget *)
updateStatusBarStatus(running) == IF running THEN StatusOk ELSE StatusError

(* the command registered by activate *)
showOutputChannelCommand == "graphqlForVSCode.showOutputChannel"

(* variant: the widget bound to a command name that is not registered *)
updateStatusBarItemOtherCommand(status, editor) ==
  LET statusUI == statusBarUIElements[status]
  IN [text |-> "$(" \o statusUI.icon \o ") " \o statusBarText,
      tooltip |-> statusUI.tooltip,
      command |-> "graphqlForVSCode.showOutput",
      color |-> statusUI.color,
      visible |-> (editor # NoEditor
                   /\ indexOf(statusBarActivationLanguageIds, editor) > -1)]

(* variant: the membership test written indexOf(...) > 0 *)
updateStatusBarItemOffByOne(status, editor) ==
  LET statusUI == statusBarUIElements[status]
  IN [text |-> "$(" \o statusUI.icon \o ") " \o statusBarText,
      tooltip |-> statusUI.tooltip,
      command |-> "graphqlForVSCode.showOutputChannel",
      color |-> statusUI.color,
      visible |-> (editor # NoEditor
                   /\ indexOf(statusBarActivationLanguageIds, editor) > 0)]

(* variant: the widget shown only while the server is running *)
updateStatusBarItemWhenRunning(status, editor) ==
  LET statusUI == statusBarUIElements[status]
  IN [text |-> "$(" \o statusUI.icon \o ") " \o statusBarText,
      tooltip |-> statusUI.tooltip,
      command |-> "graphqlForVSCode.showOutputChannel",
      color |-> statusUI.color,
      visible |-> (status = StatusOk
                   /\ editor # NoEditor
                   /\ indexOf(statusBarActivationLanguageIds, editor) > -1)]

updateStatusBarItem(status, editor) ==
  LET statusUI == statusBarUIElements[status]
  IN [text |-> "$(" \o statusUI.icon \o ") " \o statusBarText,
      tooltip |-> statusUI.tooltip,
      command |-> "graphqlForVSCode.showOutputChannel",
      color |-> statusUI.color,
      visible |-> (editor # NoEditor
                   /\ indexOf(statusBarActivationLanguageIds, editor) > -1)]

NoRender == [status |-> 0, editor |-> NoEditor, item |-> NewStatusBarItem]

(* variant: updateStatusBar without the assignment from serverRunning *)
updateStatusBarKeepsStatus(entryStatus, running, editor) ==
  LET item == updateStatusBarItem(entryStatus, editor)
      before == [status |-> renderEntry.status, editor |-> renderEntry.editor,
                 item |-> statusBarItem]
  IN /\ extensionStatus' = entryStatus
     /\ statusBarItem' = item
     /\ renderEntry' = [status |-> entryStatus, editor |-> editor]
     /\ memo' \in {memo, before}

(* updateStatusBar(editor) run with extensionStatus = entryStatus and
   serverRunning = running on entry *)
updateStatusBar(entryStatus, running, editor) ==
  LET status == updateStatusBarStatus(running)
      item == updateStatusBarItem(status, editor)
      before == [status |-> renderEntry.status, editor |-> renderEntry.editor,
                 item |-> statusBarItem]
  IN /\ extensionStatus' = status
     /\ statusBarItem' = item
     /\ renderEntry' = [status |-> entryStatus, editor |-> editor]
     /\ memo' \in {memo, before}

----------------------------------------------------------------------------
(* activate(context) *)

(* serverOptions.run.args: the two optional flags, nulls filtered out *)
runArgs(conf) ==
  SelectSeq(
    << IF configurationHas(conf, "watchman")
         THEN JsString("--watchman="
                       \o TemplateString(configurationGet(conf, "watchman")))
         ELSE JsNull,
       IF configurationHas(conf, "autoDownloadGQL")
         THEN JsString("--auto-download-gql="
                       \o TemplateString(configurationGet(conf, "autoDownloadGQL")))
         ELSE JsNull >>,
    Truthy)

(* serverOptions: run carries args, debug carries none *)
makeServerOptions(conf) ==
  [run |-> [args |-> runArgs(conf)], debug |-> [args |-> << >>]]

(* the options the client launches the server with: debug when the extension
   host runs in debug mode, run otherwise *)
launchedWith(options, debug) ==
  IF debug THEN options.debug.args ELSE options.run.args

(* record of a handled lifecycle event in the two-event history *)
noteLifecycle(event) ==
  lifecycle' = IF Len(lifecycle) < 2 THEN Append(lifecycle, event)
               ELSE <<lifecycle[2], event>>

Activate ==
  /\ ~activated
  /\ activated' = TRUE
  /\ serverOptions' = makeServerOptions(configuration)
  /\ launchArgs' = launchedWith(serverOptions', debugMode)
  /\ startCount' = startCount + 1
  /\ initializeCount' = initializeCount + 1
  \* initializeStatusBar: extensionStatus = Status.init, then the first render
  /\ updateStatusBar(StatusInit, serverRunning, activeTextEditor)
  /\ UNCHANGED <<clientState, deactivated>>
  /\ UNCHANGED <<serverRunning, activeTextEditor, configuration, debugMode,
                 handshake, errorMessages, clientLog, outputChannelShown,
                 lifecycle>>

----------------------------------------------------------------------------
(* Event handlers registered by activate and initializeStatusBar *)

(* the client completes the initialize handshake, which it does in its
   Running state, and resolves the onReady promise; the callback registered
   with then() is delivered later *)
InitializeSucceeded ==
  /\ activated
  /\ ~deactivated
  /\ handshake = "pending"
  /\ clientState = "Running"
  /\ handshake' = "resolved"
  /\ UNCHANGED <<activated, extensionStatus, serverRunning, statusBarItem,
                 activeTextEditor, configuration, debugMode, serverOptions,
                 launchArgs, startCount, initializeCount, errorMessages,
                 clientLog, outputChannelShown, lifecycle, renderEntry, memo,
                 clientState, deactivated>>

(* variant: the fulfilment handler without serverRunning = true *)
OnReadyFulfilledStaleFlag ==
  /\ activated
  /\ handshake = "resolved"
  /\ handshake' = "fulfilled"
  /\ serverRunning' = serverRunning
  /\ updateStatusBar(StatusOk, serverRunning, activeTextEditor)
  /\ noteLifecycle("ready")
  /\ UNCHANGED <<clientState, deactivated>>
  /\ UNCHANGED <<activated, activeTextEditor, configuration, debugMode,
                 serverOptions, launchArgs, startCount, initializeCount,
                 errorMessages, clientLog, outputChannelShown>>

(* client.onReady().then(onFulfilled, ...) *)
OnReadyFulfilled ==
  /\ activated
  /\ handshake = "resolved"
  /\ handshake' = "fulfilled"
  /\ serverRunning' = TRUE
  /\ updateStatusBar(StatusOk, TRUE, activeTextEditor)
  /\ noteLifecycle("ready")
  /\ UNCHANGED <<clientState, deactivated>>
  /\ UNCHANGED <<activated, activeTextEditor, configuration, debugMode,
                 serverOptions, launchArgs, startCount, initializeCount,
                 errorMessages, clientLog, outputChannelShown>>

(* variant: the handler asks the client to retry *)
initializationFailedHandlerRetries == TRUE

(* what initializationFailedHandler returns: whether to retry *)
initializationFailedHandlerResult == FALSE

FailureReasons == {"ENOENT", "timeout"}

(* variant: the handler without window.showErrorMessage *)
InitializationFailedHandlerSilent(message) ==
  /\ activated
  /\ handshake = "pending"
  /\ Len(clientLog) < MaxLog
  /\ errorMessages' = errorMessages
  /\ clientLog' = Append(clientLog,
                         [level |-> "error",
                          text |-> "Server initialization failed: " \o message])
  /\ outputChannelShown' = TRUE
  /\ initializeCount' = initializeCount
  /\ handshake' = "failing"
  /\ UNCHANGED <<clientState, deactivated>>
  /\ UNCHANGED <<activated, extensionStatus, serverRunning, statusBarItem,
                 activeTextEditor, configuration, debugMode, serverOptions,
                 launchArgs, startCount, lifecycle, renderEntry, memo>>

(* clientOptions.initializationFailedHandler(error), called by the client when
   the initialize handshake fails; on false the client rejects onReady, on
   true it initializes again *)
InitializationFailedHandler(message) ==
  /\ activated
  /\ handshake = "pending"
  /\ Len(clientLog) < MaxLog
  /\ errorMessages' = errorMessages + 1
  /\ clientLog' = Append(clientLog,
                         [level |-> "error",
                          text |-> "Server initialization failed: " \o message])
  /\ outputChannelShown' = TRUE
  /\ IF initializationFailedHandlerResult
       THEN /\ initializeCount < MaxInitialize
            /\ initializeCount' = initializeCount + 1
            /\ handshake' = "pending"
       ELSE /\ initializeCount' = initializeCount
            /\ handshake' = "failing"
  /\ UNCHANGED <<clientState, deactivated>>
  /\ UNCHANGED <<activated, extensionStatus, serverRunning, statusBarItem,
                 activeTextEditor, configuration, debugMode, serverOptions,
                 launchArgs, startCount, lifecycle, renderEntry, memo>>

(* client.onReady().then(..., onRejected) *)
OnReadyRejected ==
  /\ activated
  /\ handshake = "failing"
  /\ handshake' = "rejected"
  /\ serverRunning' = FALSE
  /\ updateStatusBar(StatusError, FALSE, activeTextEditor)
  /\ noteLifecycle("rejected")
  /\ UNCHANGED <<clientState, deactivated>>
  /\ UNCHANGED <<activated, activeTextEditor, configuration, debugMode,
                 serverOptions, launchArgs, startCount, initializeCount,
                 errorMessages, clientLog, outputChannelShown>>

(* ClientState of vscode-languageclient *)
ClientStates == {"Stopped", "Running", "Starting"}

(* variant: the Running branch without serverRunning = true *)
OnDidChangeStateRunningStaleFlag ==
  /\ activated
  /\ ~deactivated
  /\ serverRunning' = serverRunning
  /\ updateStatusBar(StatusOk, serverRunning, activeTextEditor)
  /\ noteLifecycle("running")
  /\ clientState' = "Running"
  /\ UNCHANGED deactivated
  /\ UNCHANGED <<activated, activeTextEditor, configuration, debugMode,
                 serverOptions, launchArgs, startCount, initializeCount,
                 handshake, errorMessages, clientLog, outputChannelShown>>

(* client.onDidChangeState(event => ...) with event.newState = Running; a
   client stopped by the disposal of the subscriptions does not run again *)
OnDidChangeStateRunning ==
  /\ activated
  /\ ~deactivated
  /\ serverRunning' = TRUE
  /\ updateStatusBar(StatusOk, TRUE, activeTextEditor)
  /\ noteLifecycle("running")
  /\ clientState' = "Running"
  /\ UNCHANGED deactivated
  /\ UNCHANGED <<activated, activeTextEditor, configuration, debugMode,
                 serverOptions, launchArgs, startCount, initializeCount,
                 handshake, errorMessages, clientLog, outputChannelShown>>

(* variant: the else branch also raising an error notification *)
OnDidChangeStateNotRunningNotifies(newState) ==
  /\ activated
  /\ newState # "Running"
  /\ Len(clientLog) < MaxLog
  /\ clientLog' = Append(clientLog,
                         [level |-> "info",
                          text |-> "The graphql server has stopped running"])
  /\ errorMessages' = errorMessages + 1
  /\ serverRunning' = FALSE
  /\ updateStatusBar(StatusError, FALSE, activeTextEditor)
  /\ noteLifecycle("notRunning")
  /\ clientState' = newState
  /\ UNCHANGED <<activated, activeTextEditor, configuration, debugMode,
                 serverOptions, launchArgs, startCount, initializeCount,
                 handshake, outputChannelShown, deactivated>>

(* client.onDidChangeState(event => ...) with any other event.newState *)
OnDidChangeStateNotRunning(newState) ==
  /\ activated
  /\ newState # "Running"
  /\ Len(clientLog) < MaxLog
  /\ clientLog' = Append(clientLog,
                         [level |-> "info",
                          text |-> "The graphql server has stopped running"])
  /\ serverRunning' = FALSE
  /\ updateStatusBar(StatusError, FALSE, activeTextEditor)
  /\ noteLifecycle("notRunning")
  /\ clientState' = newState
  /\ UNCHANGED deactivated
  /\ UNCHANGED <<activated, activeTextEditor, configuration, debugMode,
                 serverOptions, launchArgs, startCount, initializeCount,
                 handshake, errorMessages, outputChannelShown>>

(* window.onDidChangeActiveTextEditor(editor => updateStatusBar(editor)) *)
OnDidChangeActiveTextEditor(editor) ==
  /\ activated
  /\ activeTextEditor' = editor
  /\ updateStatusBar(extensionStatus, serverRunning, editor)
  /\ UNCHANGED <<clientState, deactivated>>
  /\ UNCHANGED <<activated, serverRunning, configuration, debugMode,
                 serverOptions, launchArgs, startCount, initializeCount,
                 handshake, errorMessages, clientLog, outputChannelShown,
                 lifecycle>>

(* the registered command graphqlForVSCode.showOutputChannel *)
ShowOutputChannel ==
  /\ activated
  /\ ~deactivated
  /\ outputChannelShown' = TRUE
  /\ UNCHANGED <<clientState, deactivated>>
  /\ UNCHANGED <<activated, extensionStatus, serverRunning, statusBarItem,
                 activeTextEditor, configuration, debugMode, serverOptions,
                 launchArgs, startCount, initializeCount, handshake,
                 errorMessages, clientLog, lifecycle, renderEntry, memo>>

----------------------------------------------------------------------------
(* Specification *)

(* configurations the status machine is explored under *)
SampleConfigurations ==
  {[k \in ConfigKeys |-> IF k = "watchman" THEN JsString("foo")
                                           ELSE JsBoolean(TRUE)]}

(* the module as loaded, before activate *)
Loaded(configurations) ==
  /\ activated = FALSE
  /\ extensionStatus = StatusOk
  /\ serverRunning = FALSE
  /\ statusBarItem = NewStatusBarItem
  /\ activeTextEditor \in Editors
  /\ configuration \in configurations
  /\ debugMode \in BOOLEAN
  /\ serverOptions = [run |-> [args |-> << >>], debug |-> [args |-> << >>]]
  /\ launchArgs = << >>
  /\ startCount = 0
  /\ initializeCount = 0
  /\ handshake = "pending"
  /\ errorMessages = 0
  /\ clientLog = << >>
  /\ outputChannelShown = FALSE
  /\ lifecycle = << >>
  /\ renderEntry = [status |-> 0, editor |-> NoEditor]
  /\ memo = NoRender
  /\ clientState = "Stopped"
  /\ deactivated = FALSE

Init == Loaded(SampleConfigurations)

Next ==
  \/ Activate
  \/ InitializeSucceeded
  \/ OnReadyFulfilled
  \/ \E message \in FailureReasons : InitializationFailedHandler(message)
  \/ OnReadyRejected
  \/ OnDidChangeStateRunning
  \/ \E newState \in ClientStates : OnDidChangeStateNotRunning(newState)
  \/ \E editor \in Editors : OnDidChangeActiveTextEditor(editor)
  \/ ShowOutputChannel

Spec == Init /\ [][Next]_vars

(* the host disposes context.subscriptions: the client is stopped, the command
   unregistered and the status bar item disposed; the listeners added with
   client.onDidChangeState and window.onDidChangeActiveTextEditor are not
   among the subscriptions and stay registered *)
Deactivate ==
  /\ activated
  /\ ~deactivated
  /\ deactivated' = TRUE
  /\ statusBarItem' = [statusBarItem EXCEPT !.visible = FALSE]
  /\ UNCHANGED <<activated, extensionStatus, serverRunning, activeTextEditor,
                 configuration, debugMode, serverOptions, launchArgs,
                 startCount, initializeCount, handshake, errorMessages,
                 clientLog, outputChannelShown, lifecycle, renderEntry, memo,
                 clientState>>

NextLifetime == Next \/ Deactivate

(* the extension from load through deactivation *)
SpecLifetime == Init /\ [][NextLifetime]_vars

(* activation alone, under every configuration *)
InitLaunch == Loaded([ConfigKeys -> ConfigValues])

SpecLaunch == InitLaunch /\ [][Activate]_vars

----------------------------------------------------------------------------
(* Properties *)

LastLifecycle == lifecycle[Len(lifecycle)]

ConnectedPresentation(item) ==
  /\ item.text = "$(plug) GQL"
  /\ item.tooltip = "Graphql language server is running"
  /\ item.color = "while"

FailedPresentation(item) ==
  /\ item.text = "$(stop) GQL"
  /\ item.tooltip = "Graphql language server has stopped"
  /\ item.color = "red"

InitializingPresentation(item) ==
  /\ item.text = "$(sync) GQL"
  /\ item.tooltip = "Graphql language server is initializing"
  /\ item.color = "white"

(* C1: once a lifecycle event has been handled, the status is Connected iff
   the last event was a successful handshake or a running notification, and
   Failed iff it was a failed handshake or a not-running notification; when
   Connected the indicator carries the Connected presentation. *)
C1_LastEventDecidesStatus ==
  lifecycle # << >> =>
    /\ extensionStatus = StatusOk <=> LastLifecycle \in {"ready", "running"}
    /\ extensionStatus = StatusError
         <=> LastLifecycle \in {"rejected", "notRunning"}
    /\ LastLifecycle \in {"ready", "running"}
         => ConnectedPresentation(statusBarItem)

(* a not-running notification immediately followed by a running one *)
C1_Witness ==
  /\ lifecycle = <<"notRunning", "running">>
  /\ extensionStatus = StatusOk
  /\ ConnectedPresentation(statusBarItem)

(* C2: after activation and before any lifecycle event (focus changes
   included), the status is Initializing and the indicator carries the
   Initializing presentation. *)
C2_InitializingBeforeFirstEvent ==
  (activated /\ lifecycle = << >>) =>
    /\ extensionStatus = StatusInit
    /\ InitializingPresentation(statusBarItem)

(* C3: the render leaves the status as it was on entry: after every render
   extensionStatus equals the value it had when updateStatusBar was entered. *)
C3_RenderKeepsStatus ==
  renderEntry.status # 0 => extensionStatus = renderEntry.status

(* C4: the rendered indicator is a function of the status on entry to the
   render and the document's languageId: a remembered earlier render with the
   same two inputs produced the same widget; and a second render with the
   inputs of the last one changes neither the widget nor the status. *)
C4_RenderIsFunctionOfInputs ==
  /\ (/\ memo.status # 0
      /\ memo.status = renderEntry.status
      /\ memo.editor = renderEntry.editor)
       => memo.item = statusBarItem
  /\ renderEntry.status # 0 =>
       /\ updateStatusBarStatus(serverRunning) = extensionStatus
       /\ updateStatusBarItem(updateStatusBarStatus(serverRunning),
                              renderEntry.editor) = statusBarItem

(* two renders with the same inputs, reached through different handlers *)
C4_Witness ==
  /\ memo.status = StatusOk
  /\ renderEntry.status = StatusOk
  /\ memo.editor = "graphql"
  /\ renderEntry.editor = "graphql"
  /\ lifecycle = <<"ready", "running">>
  /\ memo.item = statusBarItem

RecognizedLanguageIds ==
  {"graphql", "javascript", "javascriptreact", "typescript", "typescriptreact"}

(* C5: a failed startup handshake is reported by one error notification, a
   logged failure reason and the revealed output channel; once onReady has
   rejected the status is Failed and the indicator carries the Failed
   presentation, visible iff the languageId is recognized; the handlers of
   later focus-change and lifecycle events stay enabled. *)
C5_InitializationFailureReported ==
  /\ handshake \in {"failing", "rejected"} =>
       /\ errorMessages = 1
       /\ \E i \in DOMAIN clientLog : \E message \in FailureReasons :
            clientLog[i] = [level |-> "error",
                            text |-> "Server initialization failed: "
                                       \o message]
       /\ outputChannelShown
  /\ (lifecycle # << >> /\ LastLifecycle = "rejected") =>
       /\ handshake = "rejected"
       /\ extensionStatus = StatusError
       /\ FailedPresentation(statusBarItem)
       /\ statusBarItem.visible <=> activeTextEditor \in RecognizedLanguageIds
  /\ handshake = "rejected" =>
       /\ ENABLED OnDidChangeStateRunning
       /\ \A editor \in Editors : ENABLED OnDidChangeActiveTextEditor(editor)

(* the handshake failed and a later focus change was handled *)
C5_Witness ==
  /\ handshake = "rejected"
  /\ LastLifecycle = "rejected"
  /\ errorMessages = 1
  /\ renderEntry = [status |-> StatusError, editor |-> "typescript"]
  /\ memo.editor = "json"
  /\ memo.status = StatusError
  /\ statusBarItem.visible

(* C6: the failure handler answers "do not retry", the client is started and
   initialized once, and after a rejected handshake the status leaves Failed
   only by a running notification, which makes it Connected. *)
C6_NoLocalRetry ==
  /\ [](activated => startCount = 1 /\ initializeCount = 1)
  /\ [](~activated => startCount = 0 /\ initializeCount = 0)
  /\ [][(handshake = "rejected" /\ extensionStatus = StatusError
         /\ extensionStatus' # StatusError)
          => OnDidChangeStateRunning]_vars
  /\ [][(handshake = "rejected" /\ OnDidChangeStateRunning)
          => extensionStatus' = StatusOk]_vars
  /\ [][(handshake = "failing" /\ handshake' # "failing")
          => (handshake' = "rejected" /\ extensionStatus' = StatusError)]_vars

(* after the rejection, the bridge reported running again *)
C6_Witness ==
  /\ handshake = "rejected"
  /\ lifecycle = <<"rejected", "running">>
  /\ extensionStatus = StatusOk
  /\ startCount = 1

(* C7 as stated: after every render the indicator is visible iff the document
   context is present and its languageId is one of graphql, javascript,
   javascript-react, typescript, typescript-react. *)
C7_VisibleIffInStatedSet ==
  renderEntry.status # 0 =>
    (statusBarItem.visible
       <=> (/\ renderEntry.editor # NoEditor
            /\ renderEntry.editor \in
                 {"graphql", "javascript", "javascript-react", "typescript",
                  "typescript-react"}))

(* C7 amended: after every render the indicator is visible iff the document
   context is present and its languageId is one of graphql, javascript,
   javascriptreact, typescript, typescriptreact. *)
C7_VisibleIffRecognized ==
  renderEntry.status # 0 =>
    /\ renderEntry.editor = activeTextEditor
    /\ statusBarItem.visible
         <=> (/\ renderEntry.editor # NoEditor
              /\ renderEntry.editor \in RecognizedLanguageIds)

(* a render for a React document *)
C7_Witness ==
  /\ renderEntry.status # 0
  /\ renderEntry.editor = "typescriptreact"
  /\ statusBarItem.visible

(* C8: after a render, a focused graphql document has the indicator visible
   and a focused json document has it hidden, in every status. *)
C8_VisibilityIgnoresStatus ==
  activated =>
    /\ activeTextEditor = "graphql" => statusBarItem.visible
    /\ activeTextEditor = "json" => ~statusBarItem.visible

(* a graphql document focused while the status is Failed after a stop *)
C8_Witness ==
  /\ activated
  /\ activeTextEditor = "graphql"
  /\ lifecycle = <<"ready", "notRunning">>
  /\ extensionStatus = StatusError
  /\ statusBarItem.visible

(* C9: after every render the indicator carries the table entry of the
   status: plug and "is running" when Connected; stop, red and "has stopped"
   when Failed. *)
C9_PresentationFromTable ==
  renderEntry.status # 0 =>
    /\ statusBarItem.text
         = "$(" \o statusBarUIElements[extensionStatus].icon \o ") GQL"
    /\ statusBarItem.tooltip = statusBarUIElements[extensionStatus].tooltip
    /\ statusBarItem.color = statusBarUIElements[extensionStatus].color
    /\ extensionStatus = StatusOk =>
         /\ statusBarItem.text = "$(plug) GQL"
         /\ statusBarItem.tooltip = "Graphql language server is running"
    /\ extensionStatus = StatusError =>
         /\ statusBarItem.text = "$(stop) GQL"
         /\ statusBarItem.color = "red"
         /\ statusBarItem.tooltip = "Graphql language server has stopped"

(* the Failed presentation rendered after the Connected one *)
C9_Witness ==
  /\ extensionStatus = StatusError
  /\ statusBarItem.text = "$(stop) GQL"
  /\ memo.status = StatusOk
  /\ memo.item.text = "$(plug) GQL"

(* the flag an option contributes to the arguments, for every value it may have *)
FlagsOf(prefix) ==
  {JsString(prefix \o TemplateString(v)) : v \in ConfigValues \cup {JsUndefined}}

ArgSet(args) == {args[i] : i \in DOMAIN args}

(* C10: the arguments the server is launched with carry --watchman=v when the
   watchman option is present with value v, --auto-download-gql=v likewise, no
   flag for an absent option, and no null or empty entry. *)
C10_LaunchArgsCarryConfiguration ==
  activated =>
    /\ \A i \in DOMAIN launchArgs :
         launchArgs[i].t = "string" /\ launchArgs[i].s # ""
    /\ IF configurationHas(configuration, "watchman")
         THEN JsString("--watchman="
                       \o TemplateString(configuration["watchman"]))
                \in ArgSet(launchArgs)
         ELSE ArgSet(launchArgs) \cap FlagsOf("--watchman=") = {}
    /\ IF configurationHas(configuration, "autoDownloadGQL")
         THEN JsString("--auto-download-gql="
                       \o TemplateString(configuration["autoDownloadGQL"]))
                \in ArgSet(launchArgs)
         ELSE ArgSet(launchArgs) \cap FlagsOf("--auto-download-gql=") = {}

(* C11: once the extension has been deactivated, no handler writes the status
   or renders on the disposed indicator. *)
C11_NoHandlerAfterDeactivation ==
  [][deactivated =>
       /\ extensionStatus' = extensionStatus
       /\ statusBarItem' = statusBarItem
       /\ renderEntry' = renderEntry]_vars

StoppedMessage ==
  [level |-> "info", text |-> "The graphql server has stopped running"]

ErrorEntries == {i \in DOMAIN clientLog : clientLog[i].level = "error"}

(* C12: a state change to a state other than Running sets the status to
   Failed, logs the one "stopped running" message and renders, without an
   error notification and without revealing the output channel; the error
   notifications are as many as the failure handler's invocations, each of
   which logs one error. *)
C12_NotRunningOnlyLogs ==
  /\ [](errorMessages = Cardinality(ErrorEntries))
  /\ [][(\E newState \in ClientStates : OnDidChangeStateNotRunning(newState))
          => /\ extensionStatus' = StatusError
             /\ clientLog' = Append(clientLog, StoppedMessage)
             /\ errorMessages' = errorMessages
             /\ outputChannelShown' = outputChannelShown
             /\ renderEntry'.status = StatusError
             /\ FailedPresentation(statusBarItem')]_vars

(* two not-running notifications and no initialization failure *)
C12_Witness ==
  /\ lifecycle = <<"notRunning", "notRunning">>
  /\ clientLog = <<StoppedMessage, StoppedMessage>>
  /\ errorMessages = 0
  /\ ~outputChannelShown
  /\ extensionStatus = StatusError

(* C13: after every render the indicator's command is the registered
   show-output-channel command; running the command reveals the output
   channel and leaves the status and the indicator as they were. *)
C13_CommandFixedAndHarmless ==
  /\ [](renderEntry.status # 0
          => statusBarItem.command = showOutputChannelCommand)
  /\ [][ShowOutputChannel
          => /\ outputChannelShown'
             /\ extensionStatus' = extensionStatus
             /\ serverRunning' = serverRunning
             /\ statusBarItem' = statusBarItem]_vars

(* the command was run while the server was connected *)
C13_Witness ==
  /\ outputChannelShown
  /\ errorMessages = 0
  /\ extensionStatus = StatusOk
  /\ statusBarItem.command = "graphqlForVSCode.showOutputChannel"
  /\ ConnectedPresentation(statusBarItem)

(* C14: between events after activation, extensionStatus is ok exactly when
   serverRunning is true and error exactly when it is false. *)
C14_StatusAgreesWithFlag ==
  activated =>
    /\ extensionStatus = StatusOk <=> serverRunning
    /\ extensionStatus = StatusError <=> ~serverRunning

(* right after activation, and again after a fulfilled handshake *)
C14_Witness ==
  /\ activated
  /\ serverRunning
  /\ extensionStatus = StatusOk
  /\ handshake = "fulfilled"
  /\ memo.status = StatusInit

(* C15: the indicator carries the Connected presentation only while the
   client's own latest state is Running, however the onReady callback is
   interleaved with the state-change notifications. *)
C15_ConnectedOnlyWhileClientRunning ==
  (activated /\ extensionStatus = StatusOk
   /\ ConnectedPresentation(statusBarItem))
    => clientState = "Running"

====
